---- MODULE Spec2Model ----
(***************************************************************************)
(* Human-in-the-loop assistant: knowledge lookup (searchKnowledge), the    *)
(* help-request lifecycle kept in help-requests.json, the supervisor UI's  *)
(* respond endpoint, the supervisor-response poller and the live-session   *)
(* directory (SessionManager).                                             *)
(*                                                                         *)
(* The program is one Node.js event loop: a handler runs until it awaits   *)
(* file or transport I/O, and other handlers run in between.  Each action  *)
(* below is one such step of one handler.  Text is a sequence of           *)
(* one-character strings, so that toLowerCase, trim, split and includes    *)
(* are computed and not assumed.                                           *)
(***************************************************************************)
EXTENDS Integers, Sequences, FiniteSets, TLC

(***************************************************************************)
(* Text                                                                    *)
(***************************************************************************)
Range(s) == {s[i] : i \in DOMAIN s}

IsSpace(c) == c \in {" ", "\t", "\n"}

stopWords ==
    {<<"t", "h", "e">>, <<"a", "r", "e">>, <<"y", "o", "u", "r">>, <<"w", "h", "a", "t">>,
     <<"w", "h", "e", "r", "e">>, <<"h", "o", "w">>, <<"c", "a", "n">>, <<"d", "o">>,
     <<"d", "o", "e", "s">>, <<"i", "s">>, <<"a", "t">>, <<"t", "o">>, <<"o", "f">>,
     <<"g", "l", "a", "m", "o", "u", "r">>, <<"s", "a", "l", "o", "n">>}

synonyms(word) ==
    CASE word = <<"p", "r", "i", "c", "e">> ->
          {<<"c", "o", "s", "t">>, <<"p", "r", "i", "c", "i", "n", "g">>, <<"f", "e", "e">>,
           <<"c", "h", "a", "r", "g", "e">>, <<"r", "a", "t", "e">>}
      [] word = <<"c", "o", "s", "t">> ->
          {<<"p", "r", "i", "c", "e">>, <<"p", "r", "i", "c", "i", "n", "g">>, <<"f", "e", "e">>,
           <<"c", "h", "a", "r", "g", "e">>, <<"r", "a", "t", "e">>}
      [] word = <<"p", "r", "i", "c", "i", "n", "g">> ->
          {<<"p", "r", "i", "c", "e">>, <<"c", "o", "s", "t">>, <<"f", "e", "e">>,
           <<"c", "h", "a", "r", "g", "e">>, <<"r", "a", "t", "e">>}
      [] word = <<"c", "o", "l", "o", "r">> ->
          {<<"c", "o", "l", "o", "r", "i", "n", "g">>, <<"c", "o", "l", "o", "u", "r">>,
           <<"c", "o", "l", "o", "u", "r", "i", "n", "g">>}
      [] word = <<"c", "o", "l", "o", "r", "i", "n", "g">> ->
          {<<"c", "o", "l", "o", "r">>, <<"c", "o", "l", "o", "u", "r">>,
           <<"c", "o", "l", "o", "u", "r", "i", "n", "g">>}
      [] word = <<"h", "a", "i", "r">> ->
          {<<"h", "a", "i", "r", "c", "u", "t">>, <<"h", "a", "i", "r", "s", "t", "y", "l", "e">>,
           <<"h", "a", "i", "r", "c", "u", "t", "t", "i", "n", "g">>}
      [] word = <<"a", "p", "p", "o", "i", "n", "t", "m", "e", "n", "t">> ->
          {<<"b", "o", "o", "k", "i", "n", "g">>,
           <<"r", "e", "s", "e", "r", "v", "a", "t", "i", "o", "n">>,
           <<"s", "c", "h", "e", "d", "u", "l", "e">>}
      [] word = <<"b", "o", "o", "k", "i", "n", "g">> ->
          {<<"a", "p", "p", "o", "i", "n", "t", "m", "e", "n", "t">>,
           <<"r", "e", "s", "e", "r", "v", "a", "t", "i", "o", "n">>,
           <<"s", "c", "h", "e", "d", "u", "l", "e">>}
      [] word = <<"h", "o", "u", "r", "s">> ->
          {<<"t", "i", "m", "e">>, <<"s", "c", "h", "e", "d", "u", "l", "e">>,
           <<"o", "p", "e", "n">>, <<"c", "l", "o", "s", "e", "d">>}
      [] word = <<"l", "o", "c", "a", "t", "i", "o", "n">> ->
          {<<"a", "d", "d", "r", "e", "s", "s">>, <<"w", "h", "e", "r", "e">>, <<"f", "i", "n", "d">>}
      [] word = <<"s", "e", "r", "v", "i", "c", "e", "s">> ->
          {<<"s", "e", "r", "v", "i", "c", "e">>,
           <<"t", "r", "e", "a", "t", "m", "e", "n", "t", "s">>,
           <<"o", "f", "f", "e", "r", "i", "n", "g", "s">>}
      [] OTHER -> {}

\* "What are your business hours?"
QBusinessHours ==
    <<"W", "h", "a", "t", " ", "a", "r", "e", " ", "y", "o", "u", "r", " ", "b", "u", "s", "i",
      "n", "e", "s", "s", " ", "h", "o", "u", "r", "s", "?">>

\* "Where are you located?"
QLocated ==
    <<"W", "h", "e", "r", "e", " ", "a", "r", "e", " ", "y", "o", "u", " ", "l", "o", "c", "a",
      "t", "e", "d", "?">>

\* "What services do you offer?"
QServices ==
    <<"W", "h", "a", "t", " ", "s", "e", "r", "v", "i", "c", "e", "s", " ", "d", "o", " ", "y",
      "o", "u", " ", "o", "f", "f", "e", "r", "?">>

\* "How much does a haircut cost?"
QHaircutCost ==
    <<"H", "o", "w", " ", "m", "u", "c", "h", " ", "d", "o", "e", "s", " ", "a", " ", "h", "a",
      "i", "r", "c", "u", "t", " ", "c", "o", "s", "t", "?">>

\* "Do I need an appointment?"
QAppointment ==
    <<"D", "o", " ", "I", " ", "n", "e", "e", "d", " ", "a", "n", " ", "a", "p", "p", "o", "i",
      "n", "t", "m", "e", "n", "t", "?">>

\* "hours"
CatHours ==
    <<"h", "o", "u", "r", "s">>

\* "location"
CatLocation ==
    <<"l", "o", "c", "a", "t", "i", "o", "n">>

\* "services"
CatServices ==
    <<"s", "e", "r", "v", "i", "c", "e", "s">>

\* "pricing"
CatPricing ==
    <<"p", "r", "i", "c", "i", "n", "g">>

\* "booking"
CatBooking ==
    <<"b", "o", "o", "k", "i", "n", "g">>

\* "supervisor-learned"
CatSupervisorLearned ==
    <<"s", "u", "p", "e", "r", "v", "i", "s", "o", "r", "-", "l", "e", "a", "r", "n", "e", "d">>

\* "Do you have parking?"
QParking ==
    <<"D", "o", " ", "y", "o", "u", " ", "h", "a", "v", "e", " ", "p", "a", "r", "k", "i", "n",
      "g", "?">>

\* "Is there wifi?"
QWifi ==
    <<"I", "s", " ", "t", "h", "e", "r", "e", " ", "w", "i", "f", "i", "?">>

toLowerChar(c) ==
    CASE c = "A" -> "a"
      [] c = "B" -> "b"
      [] c = "C" -> "c"
      [] c = "D" -> "d"
      [] c = "E" -> "e"
      [] c = "F" -> "f"
      [] c = "G" -> "g"
      [] c = "H" -> "h"
      [] c = "I" -> "i"
      [] c = "J" -> "j"
      [] c = "K" -> "k"
      [] c = "L" -> "l"
      [] c = "M" -> "m"
      [] c = "N" -> "n"
      [] c = "O" -> "o"
      [] c = "P" -> "p"
      [] c = "Q" -> "q"
      [] c = "R" -> "r"
      [] c = "S" -> "s"
      [] c = "T" -> "t"
      [] c = "U" -> "u"
      [] c = "V" -> "v"
      [] c = "W" -> "w"
      [] c = "X" -> "x"
      [] c = "Y" -> "y"
      [] c = "Z" -> "z"
      [] OTHER -> c

toLowerCase(s) == [i \in 1..Len(s) |-> toLowerChar(s[i])]

RECURSIVE trimStart(_)
trimStart(s) == IF s # <<>> /\ IsSpace(Head(s)) THEN trimStart(Tail(s)) ELSE s

RECURSIVE trimEnd(_)
trimEnd(s) ==
    IF s # <<>> /\ IsSpace(s[Len(s)]) THEN trimEnd(SubSeq(s, 1, Len(s) - 1)) ELSE s

trim(s) == trimEnd(trimStart(s))

\* String.prototype.includes: the empty string is included in every string.
includes(s, sub) ==
    \E i \in 0..(Len(s) - Len(sub)) : SubSeq(s, i + 1, i + Len(sub)) = sub

\* s.split(/\s+/): the pieces between runs of whitespace; "" splits to [""].
RECURSIVE splitFrom(_, _, _)
splitFrom(s, i, cur) ==
    IF i > Len(s) THEN <<cur>>
    ELSE IF IsSpace(s[i])
         THEN IF i > 1 /\ IsSpace(s[i - 1])
              THEN splitFrom(s, i + 1, cur)
              ELSE <<cur>> \o splitFrom(s, i + 1, <<>>)
         ELSE splitFrom(s, i + 1, Append(cur, s[i]))

split(s) == splitFrom(s, 1, <<>>)

(***************************************************************************)
(* Knowledge base lookup (store.ts, searchKnowledge)                       *)
(***************************************************************************)
null == [kind |-> "null"]

normalize(s) == trim(toLowerCase(s))

queryWords(normalizedQuery) ==
    {w \in Range(split(normalizedQuery)) : Len(w) > 3 /\ w \notin stopWords}

expandedQueryWords(normalizedQuery) ==
    queryWords(normalizedQuery)
        \cup UNION {synonyms(w) : w \in queryWords(normalizedQuery)}

questionWords(normalizedQuestion) ==
    {w \in Range(split(normalizedQuestion)) : Len(w) > 3}

substringScore(normalizedQuestion, normalizedQuery) ==
    IF includes(normalizedQuestion, normalizedQuery)
       \/ includes(normalizedQuery, normalizedQuestion)
    THEN 100 ELSE 0

categoryScore(entry, expanded) ==
    LET category == IF "category" \in DOMAIN entry
                    THEN toLowerCase(entry.category) ELSE <<>>
    IN  IF category # <<>> /\ \E word \in expanded : includes(category, word)
        THEN 50 ELSE 0

matchCount(qWords, expanded) == Cardinality({word \in expanded : word \in qWords})

partialMatches(qWords, expanded) ==
    Cardinality({queryWord \in expanded :
        \E questionWord \in qWords :
            includes(questionWord, queryWord) \/ includes(queryWord, questionWord)})

learnedBonus(entry) == IF entry.source = "learned" THEN 10 ELSE 0

\* The score the map callback of searchKnowledge gives one entry.
score(entry, normalizedQuery, expanded) ==
    LET normalizedQuestion == normalize(entry.question)
        qWords == questionWords(normalizedQuestion)
    IN  substringScore(normalizedQuestion, normalizedQuery)
        + categoryScore(entry, expanded)
        + matchCount(qWords, expanded) * 20
        + partialMatches(qWords, expanded) * 5
        + learnedBonus(entry)

(***************************************************************************)
(* Program constants, bounds and inputs                                    *)
(***************************************************************************)
\* 60 * 60 * 1000: a request times out one hour after it was created.
HOUR == 3600000

MaxHours == 1
MaxRequests == 2
MaxLearned == 2
MaxInFlight == 2


\* The phone entry() falls back to when the room carries no metadata, and another.
DefaultPhone == "+1234567890"
Phones == {DefaultPhone, "+1555000111"}

\* The instants the clock is looked at: 0, and each full hour and the
\* millisecond after it.
Instants == {0} \cup {k * HOUR + d : k \in 1..MaxHours, d \in {0, 1}}

\* The jobs (calls) the worker accepts; each creates one voice.AgentSession.
Sessions == {"s1", "s2"}

\* Handlers that may be in flight at once: tool calls of the agent, respond
\* requests and pending-list reads of the supervisor UI, ticks of the poller.
Agents == {"a1"}
Responders == {"r1", "r2"}
Getters == {"g1"}
Tickers == {"t1", "t2"}
\* The two functions that seed the knowledge base: main of seed.ts, which runs
\* whenever seed.ts is loaded, and initDatabase of init.ts.
Seeders == {"main", "initDatabase"}
Procs == Agents \cup Responders \cup Getters \cup Tickers \cup Seeders

\* What callers ask (the searchKnowledge tool's query) and what the model
\* escalates of its own accord (the requestHelp tool's question).
Queries == {QBusinessHours, QParking, QWifi}
Questions == {QParking}
Answers == {"", "Yes, free parking in the lot", "No"}

\* What the environment offers in a run: how many handlers it lets be in flight
\* at once, how many help requests it has created, how many answers learned,
\* the answers the supervisor types, whether reads and writes of the data
\* files succeed,
\* and by how many milliseconds the system clock may move on between two of
\* the clock reads of one createHelpRequest.  One handler at a time; handlers
\* interleaved at their awaits; one escalation followed for ever.
SequentialLoad ==
    [inFlight |-> 1, requests |-> MaxRequests, learned |-> MaxLearned, answers |-> Answers,
     reads |-> {TRUE}, writes |-> {TRUE}, drift |-> {0}]
ConcurrentLoad ==
    [inFlight |-> MaxInFlight, requests |-> MaxRequests, learned |-> 1,
     answers |-> {"", "No"}, reads |-> {TRUE}, writes |-> {TRUE}, drift |-> {0}]
SingleLoad ==
    [inFlight |-> 1, requests |-> 1, learned |-> 1, answers |-> {"", "No"},
     reads |-> {TRUE}, writes |-> {TRUE}, drift |-> {0}]
\* One handler at a time, with reads and writes of the data files that may fail.
FaultyLoad ==
    [inFlight |-> 1, requests |-> MaxRequests, learned |-> 1, answers |-> {"", "No"},
     reads |-> BOOLEAN, writes |-> BOOLEAN, drift |-> {0}]
\* One handler at a time, with a system clock that may tick between the clock
\* reads of one createHelpRequest.
DriftingLoad ==
    [inFlight |-> 1, requests |-> MaxRequests, learned |-> 1, answers |-> {"", "No"},
     reads |-> {TRUE}, writes |-> {TRUE}, drift |-> {0, 1}]

PENDING == "pending"
RESOLVED == "resolved"
TIMEOUT == "timeout"

\* seed.ts: the five entries of the initial knowledge, as addKnowledge stores them.
initialKnowledge ==
    << [question |-> QBusinessHours, category |-> CatHours, source |-> "initial",
        answer |-> "We are open Monday through Friday from 9 AM to 7 PM, and Saturday from 10 AM to 6 PM. We are closed on Sundays."],
       [question |-> QLocated, category |-> CatLocation, source |-> "initial",
        answer |-> "We are located at 123 Beauty Street, San Francisco, CA 94102."],
       [question |-> QServices, category |-> CatServices, source |-> "initial",
        answer |-> "We offer haircuts, hair coloring, highlights, balayage, hair styling, blowouts, keratin treatments, and hair extensions."],
       [question |-> QHaircutCost, category |-> CatPricing, source |-> "initial",
        answer |-> "A standard haircut is $65. A haircut with a senior stylist is $85."],
       [question |-> QAppointment, category |-> CatBooking, source |-> "initial",
        answer |-> "Yes, we operate by appointment only. You can book by calling us or through our website."] >>

\* The fields of an entry that searchKnowledge reads.
scoredFields(entry) ==
    [f \in DOMAIN entry \cap {"question", "category", "source"} |-> entry[f]]

\* The entries the knowledge base can hold here, by the fields that are scored:
\* the seed entries and the entries learned from an escalated question.
KnownEntries ==
    {scoredFields(initialKnowledge[i]) : i \in DOMAIN initialKnowledge}
        \cup {[question |-> q, category |-> CatSupervisorLearned, source |-> "learned"] :
                q \in Queries}

\* score, computed once for each of these entries and each query.
scoreCache ==
    [query \in Queries |->
        [e \in KnownEntries |->
            score(e, normalize(query), expandedQueryWords(normalize(query)))]]

scoreOf(entry, query) ==
    IF query \in Queries /\ scoredFields(entry) \in KnownEntries
    THEN scoreCache[query][scoredFields(entry)]
    ELSE score(entry, normalize(query), expandedQueryWords(normalize(query)))

\* A search whose sort puts the last of the entries of equal score first.
searchKnowledgeLastOfTies(kb, query) ==
    LET sc == [i \in DOMAIN kb |-> scoreOf(kb[i], query)]
        scored == {i \in DOMAIN kb : sc[i] > 0}
    IN  IF scored = {} THEN null
        ELSE kb[CHOOSE i \in scored :
                    \A j \in scored : sc[j] < sc[i] \/ (sc[j] = sc[i] /\ i >= j)]

\* filter(score > 0), a stable sort by descending score, then element 0: the
\* first entry, in store order, among those of the highest positive score.
searchKnowledge(kb, query) ==
    LET sc == [i \in DOMAIN kb |-> scoreOf(kb[i], query)]
        scored == {i \in DOMAIN kb : sc[i] > 0}
    IN  IF scored = {} THEN null
        ELSE kb[CHOOSE i \in scored :
                    \A j \in scored : sc[j] < sc[i] \/ (sc[j] = sc[i] /\ i <= j)]

VARIABLES
    clock,                  \* Date.now(), in milliseconds
    helpRequests,           \* data/help-requests.json
    knowledge,              \* data/knowledge-base.json
    pendingFollowUps,       \* data/pending-followups.json
    activeSessions,         \* SessionManager.activeSessions: customerPhone -> ActiveSession
    sessions,               \* the jobs' entry functions and their AgentSessions
    proc,                   \* the handlers in flight, each with its locals
    response,               \* what this step returned to its caller, or null
    customerNotified,       \* the outcome of notifyCustomer, if this step ended one
    supervisorNotified      \* the request notifySupervisor logged in this step

vars == <<clock, helpRequests, knowledge, pendingFollowUps, activeSessions, sessions,
          proc, response, customerNotified, supervisorNotified>>

(***************************************************************************)
(* Record store (store.ts)                                                 *)
(***************************************************************************)
\* The ids of help requests that exist: in the file or in a handler's memory.
knownRequestIds ==
    {r.id : r \in Range(helpRequests)}
        \cup UNION {{r.id : r \in Range(proc[p].requests)} :
                        p \in {q \in DOMAIN proc : "requests" \in DOMAIN proc[q]}}
        \cup {proc[p].helpRequest.id :
                        p \in {q \in DOMAIN proc : "helpRequest" \in DOMAIN proc[q]}}

\* Math.random().toString(36).substr(2, 9) in a request id: all that can be
\* observed of it is whether it equals the suffix of another id made in the same
\* millisecond (the suffixes in use then) or not (the least one not in use).
randomSuffixes ==
    LET same == {id[3] : id \in {x \in knownRequestIds : x[2] = clock}}
    IN  same \cup {CHOOSE n \in 1..(Cardinality(same) + 1) : n \notin same}

\* readJsonFile: the parsed file, or, when reading or parsing throws, the
\* default value the caller passed.
readJsonFile(data, defaultValue, ok) == IF ok THEN data ELSE defaultValue

getAllHelpRequests == helpRequests

getAllKnowledge == knowledge

\* { ...record, ...updates }
spread(record, updates) ==
    [f \in DOMAIN record \cup DOMAIN updates |->
        IF f \in DOMAIN updates THEN updates[f] ELSE record[f]]

\* requests.findIndex((r) => r.id === id); 0 stands for -1.
findIndex(requests, id) ==
    IF \E i \in DOMAIN requests : requests[i].id = id
    THEN CHOOSE i \in DOMAIN requests :
            /\ requests[i].id = id
            /\ \A j \in DOMAIN requests : requests[j].id = id => i <= j
    ELSE 0

getHelpRequest(id) ==
    IF findIndex(helpRequests, id) = 0 THEN null
    ELSE helpRequests[findIndex(helpRequests, id)]

\* The three clock reads of createHelpRequest (Date.now() for the id, new Date()
\* for createdAt, Date.now() for timeoutAt): the first is the present instant,
\* and the clock may have moved on before each of the next two.
clockReads(drift) ==
    {at \in Instants \X Instants \X Instants :
        /\ at[1] = clock
        /\ at[2] - at[1] \in drift
        /\ at[3] - at[2] \in drift}

newHelpRequest(request, rnd, at) ==
    spread(request, [id |-> <<"req", at[1], rnd>>,
                     createdAt |-> at[2],
                     timeoutAt |-> at[3] + HOUR])

\* An addKnowledge that files every entry as a manual one.
newKnowledgeEntryManual(kb, entry) ==
    spread(entry, [id |-> <<"kb", clock, Len(kb) + 1>>, source |-> "manual",
                   createdAt |-> clock, updatedAt |-> clock])

\* The random suffix of a knowledge id is never read back: it is the entry's
\* place in the collection it was pushed to.
newKnowledgeEntry(kb, entry) ==
    spread(entry, [id |-> <<"kb", clock, Len(kb) + 1>>,
                   createdAt |-> clock, updatedAt |-> clock])

\* The loop of getPendingHelpRequests over the requests it has read.
expired(request) == request.status = PENDING /\ request.timeoutAt < clock

\* A sweep that drops the expired requests instead of marking them.
sweepDropsExpired(requests) == SelectSeq(requests, LAMBDA r : ~expired(r))

\* A sweep that also moves the deadline of what it marks to the present.
sweepRestamps(requests) ==
    [i \in DOMAIN requests |->
        IF expired(requests[i])
        THEN [requests[i] EXCEPT !.status = TIMEOUT, !.timeoutAt = clock]
        ELSE requests[i]]

\* A sweep that marks nothing.
sweepMarksNothing(requests) == requests

sweepTimeouts(requests) ==
    [i \in DOMAIN requests |->
        IF expired(requests[i]) THEN [requests[i] EXCEPT !.status = TIMEOUT]
        ELSE requests[i]]

hasChanges(requests) == \E i \in DOMAIN requests : expired(requests[i])

\* A filter that keeps everything but the resolved requests.
filterUnresolved(requests) == SelectSeq(requests, LAMBDA r : r.status # RESOLVED)

\* A filter that keeps the resolved requests along with the pending ones.
filterNotTimedOut(requests) == SelectSeq(requests, LAMBDA r : r.status # TIMEOUT)

RECURSIVE filterPending(_)
filterPending(requests) ==
    IF requests = <<>> THEN <<>>
    ELSE IF Head(requests).status = PENDING
         THEN <<Head(requests)>> \o filterPending(Tail(requests))
         ELSE filterPending(Tail(requests))

newPendingFollowUp(followUp, rnd) ==
    spread([id |-> <<"followup", clock, rnd>>, createdAt |-> clock], followUp)

addPendingFollowUp(followUps, followUp, rnd) ==
    Append(followUps, newPendingFollowUp(followUp, rnd))

getPendingFollowUpsForCustomer(customerPhone) ==
    {i \in DOMAIN pendingFollowUps :
        /\ pendingFollowUps[i].customerPhone = customerPhone
        /\ "deliveredAt" \notin DOMAIN pendingFollowUps[i]}

(***************************************************************************)
(* Live-session directory (session-manager.ts, SessionManager)             *)
(***************************************************************************)
\* A registration that leaves an entry the phone already has in place.
registerSessionKeepsStale(customerPhone, session) ==
    [p \in DOMAIN activeSessions \cup {customerPhone} |->
        IF p \in DOMAIN activeSessions
        THEN activeSessions[p]
        ELSE [customerPhone |-> customerPhone, session |-> session,
              roomName |-> <<"room", session>>, connectedAt |-> clock]]

registerSession(customerPhone, session) ==
    [p \in DOMAIN activeSessions \cup {customerPhone} |->
        IF p = customerPhone
        THEN [customerPhone |-> customerPhone, session |-> session,
              roomName |-> <<"room", session>>, connectedAt |-> clock]
        ELSE activeSessions[p]]

unregisterSession(customerPhone) ==
    [p \in DOMAIN activeSessions \ {customerPhone} |-> activeSessions[p]]

isSessionActive(customerPhone) == customerPhone \in DOMAIN activeSessions

getActiveSessionCount == Cardinality(DOMAIN activeSessions)

seeded ==
    [i \in DOMAIN initialKnowledge |->
        spread(initialKnowledge[i],
               [id |-> <<"kb", 0, i>>, createdAt |-> 0, updatedAt |-> 0])]

Idle == [pc |-> "idle"]

Init ==
    /\ clock = 0
    /\ helpRequests = <<>>
    /\ knowledge = seeded
    /\ pendingFollowUps = <<>>
    /\ activeSessions = <<>>
    /\ sessions = [s \in Sessions |-> [pc |-> "new", state |-> "init"]]
    /\ proc = [p \in Procs |-> Idle]
    /\ response = null
    /\ customerNotified = {}
    /\ supervisorNotified = {}

\* A step that returns nothing to a caller and logs no notification.
Silent == response' = null /\ customerNotified' = {} /\ supervisorNotified' = {}

InFlight == {p \in Procs : proc[p].pc # "idle"}

\* A handler slot is taken in order, so that two runs that differ only in the
\* names of the slots are one run.
MayStart(p, load) ==
    /\ proc[p].pc = "idle"
    /\ Cardinality(InFlight) < load.inFlight
    /\ p = "r2" => proc["r1"].pc # "idle"
    /\ p = "t2" => proc["t1"].pc # "idle"

Creating == {p \in Procs : proc[p].pc \in {"createHelpRequest:read", "createHelpRequest:write"}}

Learning ==
    {p \in Procs : proc[p].pc \in {"updateHelpRequest:read", "updateHelpRequest:write",
                                   "addKnowledge:read", "addKnowledge:write"}}

learned(kb) == {i \in DOMAIN kb : kb[i].source = "learned"}

(***************************************************************************)
(* Clock                                                                   *)
(***************************************************************************)
\* Time passes, to a later instant.
AdvanceClock ==
    /\ \E t \in Instants : t > clock /\ clock' = t
    /\ Silent
    /\ UNCHANGED <<helpRequests, knowledge, pendingFollowUps, activeSessions, sessions, proc>>

(***************************************************************************)
(* Agent worker (agent.ts, entry): one job per call                        *)
(***************************************************************************)
Running(s) == sessions[s].state = "running"

\* entry() up to "await session.start(...)": the session exists, its Close
\* handler is attached.
JobEntry(s, customerPhone) ==
    /\ sessions[s].pc = "new"
    /\ s = "s2" => sessions["s1"].pc # "new"
    /\ sessions' = [sessions EXCEPT ![s] =
            [pc |-> "session.start", state |-> "init", customerPhone |-> customerPhone]]
    /\ Silent
    /\ UNCHANGED <<clock, helpRequests, knowledge, pendingFollowUps, activeSessions, proc>>

\* session.start resolved; entry() goes on to "await ctx.connect()".
SessionStarted(s) ==
    /\ sessions[s].pc = "session.start"
    /\ sessions' = [sessions EXCEPT ![s].pc = "ctx.connect", ![s].state = "running"]
    /\ Silent
    /\ UNCHANGED <<clock, helpRequests, knowledge, pendingFollowUps, activeSessions, proc>>

\* ctx.connect resolved; entry() registers the session and greets.
RoomConnected(s) ==
    /\ sessions[s].pc = "ctx.connect"
    /\ sessions' = [sessions EXCEPT ![s].pc = "registered"]
    /\ activeSessions' = registerSession(sessions[s].customerPhone, s)
    /\ Silent
    /\ UNCHANGED <<clock, helpRequests, knowledge, pendingFollowUps, proc>>

\* session.start or ctx.connect rejected: entry() logs and rethrows.
EntryFailed(s) ==
    /\ sessions[s].pc \in {"session.start", "ctx.connect"}
    /\ sessions' = [sessions EXCEPT ![s].pc = "failed"]
    /\ Silent
    /\ UNCHANGED <<clock, helpRequests, knowledge, pendingFollowUps, activeSessions, proc>>

\* The session's Close event: the handler unregisters the customer's phone.
SessionClose(s) ==
    /\ Running(s)
    /\ sessions' = [sessions EXCEPT ![s].state = "closed"]
    /\ activeSessions' = unregisterSession(sessions[s].customerPhone)
    /\ Silent
    /\ UNCHANGED <<clock, helpRequests, knowledge, pendingFollowUps, proc>>

(***************************************************************************)
(* Agent tools (agent.ts, Assistant) and escalation (escalation.ts)        *)
(***************************************************************************)
InCall(s) == sessions[s].pc = "registered" /\ Running(s)

MayCreate(load) == Len(helpRequests) + Cardinality(Creating) < load.requests

\* An escalation that files the request as a timeout one.
escalateAsTimeout(tool, customerPhone, question) ==
    [pc |-> "createHelpRequest:read", tool |-> tool,
     request |-> [customerPhone |-> customerPhone, question |-> question,
                  status |-> TIMEOUT]]

\* escalateToSupervisor up to "await createHelpRequest(requestData)".
escalateToSupervisor(tool, customerPhone, question) ==
    [pc |-> "createHelpRequest:read", tool |-> tool,
     request |-> [customerPhone |-> customerPhone, question |-> question,
                  status |-> PENDING]]

\* A searchKnowledge tool whose lookup stamps the entries it has read.
SearchKnowledgeToolStamping(p, s, query, load) ==
    /\ p \in Agents /\ MayStart(p, load) /\ InCall(s)
    /\ \E ok \in load.reads :
       LET result == searchKnowledge(readJsonFile(getAllKnowledge, <<>>, ok), query) IN
        IF result # null
        THEN /\ response' = [handler |-> "searchKnowledge", query |-> query,
                             answer |-> result.answer]
             /\ UNCHANGED proc
        ELSE /\ MayCreate(load)
             /\ proc' = [proc EXCEPT ![p] =
                    escalateToSupervisor("searchKnowledge", sessions[s].customerPhone, query)]
             /\ response' = null
    /\ knowledge' = [i \in DOMAIN knowledge |->
                        spread(knowledge[i], [updatedAt |-> clock])]
    /\ customerNotified' = {} /\ supervisorNotified' = {}
    /\ UNCHANGED <<clock, helpRequests, pendingFollowUps, activeSessions, sessions>>

\* The searchKnowledge tool: answer from the knowledge base, or escalate.
SearchKnowledgeTool(p, s, query, load) ==
    /\ p \in Agents /\ MayStart(p, load) /\ InCall(s)
    /\ \E ok \in load.reads :
       LET result == searchKnowledge(readJsonFile(getAllKnowledge, <<>>, ok), query) IN
        IF result # null
        THEN /\ response' = [handler |-> "searchKnowledge", query |-> query,
                             answer |-> result.answer]
             /\ UNCHANGED proc
        ELSE /\ MayCreate(load)
             /\ proc' = [proc EXCEPT ![p] =
                    escalateToSupervisor("searchKnowledge", sessions[s].customerPhone, query)]
             /\ response' = null
    /\ customerNotified' = {} /\ supervisorNotified' = {}
    /\ UNCHANGED <<clock, helpRequests, knowledge, pendingFollowUps, activeSessions, sessions>>

\* The requestHelp tool: escalate.
RequestHelpTool(p, s, question, load) ==
    /\ p \in Agents /\ MayStart(p, load) /\ InCall(s) /\ MayCreate(load)
    /\ proc' = [proc EXCEPT ![p] =
            escalateToSupervisor("requestHelp", sessions[s].customerPhone, question)]
    /\ Silent
    /\ UNCHANGED <<clock, helpRequests, knowledge, pendingFollowUps, activeSessions, sessions>>

\* A handler whose exception nothing catches: it never settles.
afterThrowUncaught(p) == [pc |-> "uncaught"]

\* Where a handler is after writeJsonFile has thrown inside it: the try/catch of
\* the timer callback, of the route, or the caller of the tool ends it.
afterThrow(p) == Idle

\* What the handler lets out when writeJsonFile has thrown inside it: the
\* poller logs the error, a route answers 500, a tool rejects.
caught(p) ==
    IF p \in Tickers THEN [handler |-> "poller", error |-> "logged"]
    ELSE IF p \in Responders THEN [handler |-> "respond", status |-> 500]
    ELSE IF p \in Getters THEN [handler |-> "pending", status |-> 500]
    ELSE [handler |-> proc[p].tool, error |-> "thrown"]

\* writeJsonFile throws: the file is as it was and the handler ends.
Throws(p) ==
    /\ proc' = [proc EXCEPT ![p] = afterThrow(p)]
    /\ response' = caught(p)
    /\ customerNotified' = {} /\ supervisorNotified' = {}
    /\ UNCHANGED <<clock, helpRequests, knowledge, pendingFollowUps, activeSessions, sessions>>

\* createHelpRequest: the collection is read, the new request pushed.
createHelpRequestRead(p, ok, at) ==
    /\ proc[p].pc = "createHelpRequest:read"
    /\ \E rnd \in randomSuffixes :
        LET newRequest == newHelpRequest(proc[p].request, rnd, at) IN
        proc' = [proc EXCEPT ![p] =
            [pc |-> "createHelpRequest:write", tool |-> proc[p].tool,
             requests |-> Append(readJsonFile(getAllHelpRequests, <<>>, ok), newRequest),
             newRequest |-> newRequest]]
    /\ clock' = at[3]
    /\ Silent
    /\ UNCHANGED <<helpRequests, knowledge, pendingFollowUps, activeSessions, sessions>>

\* createHelpRequest: the whole collection is written back.
createHelpRequestWrite(p, ok) ==
    /\ proc[p].pc = "createHelpRequest:write"
    /\ IF ok
       THEN /\ helpRequests' = proc[p].requests
            /\ proc' = [proc EXCEPT ![p] =
                    [pc |-> "notifySupervisor", tool |-> proc[p].tool,
                     helpRequest |-> proc[p].newRequest]]
            /\ Silent
            /\ UNCHANGED <<clock, knowledge, pendingFollowUps, activeSessions, sessions>>
       ELSE Throws(p)

\* A notification that is handed the id and the question only.
notifySupervisorBriefly(p) ==
    /\ proc[p].pc = "notifySupervisor"
    /\ supervisorNotified' = {[id |-> proc[p].helpRequest.id,
                               question |-> proc[p].helpRequest.question]}
    /\ response' = [handler |-> proc[p].tool, escalated |-> proc[p].helpRequest.id]
    /\ customerNotified' = {}
    /\ proc' = [proc EXCEPT ![p] = Idle]
    /\ UNCHANGED <<clock, helpRequests, knowledge, pendingFollowUps, activeSessions, sessions>>

\* notifySupervisor(helpRequest), then the tool returns the reference.
notifySupervisor(p) ==
    /\ proc[p].pc = "notifySupervisor"
    /\ supervisorNotified' = {proc[p].helpRequest}
    /\ response' = [handler |-> proc[p].tool, escalated |-> proc[p].helpRequest.id]
    /\ customerNotified' = {}
    /\ proc' = [proc EXCEPT ![p] = Idle]
    /\ UNCHANGED <<clock, helpRequests, knowledge, pendingFollowUps, activeSessions, sessions>>

(***************************************************************************)
(* Customer notification (notification.ts, ConsoleNotificationService;     *)
(* session-manager.ts, sendMessageToCustomer)                              *)
(***************************************************************************)
followUpMessage(answer) == <<"Hi! I got an answer to your question: ", answer>>

Caller(p) == IF p \in Tickers THEN "poller" ELSE "respond"

\* The loop of checkForSupervisorResponses from element i on: the next request
\* that has supervisorAnswer and resolvedAt is notified, or the tick ends.
answered(request) ==
    /\ "supervisorAnswer" \in DOMAIN request
    /\ request.supervisorAnswer # ""
    /\ "resolvedAt" \in DOMAIN request

pollerLoop(pendingRequests, i) ==
    LET js == {j \in i..Len(pendingRequests) : answered(pendingRequests[j])} IN
    IF js = {} THEN Idle
    ELSE LET j == CHOOSE k \in js : \A l \in js : k <= l IN
         [pc |-> "notifyCustomer",
          locals |-> [pendingRequests |-> pendingRequests, i |-> j],
          customerPhone |-> pendingRequests[j].customerPhone,
          message |-> followUpMessage(pendingRequests[j].supervisorAnswer)]

\* What follows notifyCustomer: the respond endpoint answers 200; the poller
\* marks the request RESOLVED.
AfterNotify(p) ==
    IF p \in Responders
    THEN /\ proc' = [proc EXCEPT ![p] = Idle]
         /\ response' = [handler |-> "respond", status |-> 200,
                         request |-> proc[p].locals.updatedRequest]
    ELSE /\ proc' = [proc EXCEPT ![p] =
                [pc |-> "updateHelpRequest:read", locals |-> proc[p].locals,
                 id |-> proc[p].locals.pendingRequests[proc[p].locals.i].id,
                 updates |-> [status |-> RESOLVED]]]
         /\ response' = null

\* What notifyCustomer logs when sendMessageToCustomer has returned: whether a
\* session was found and pushed to, and what the push returned.
outcomeAlwaysDelivered(p, pushed, delivered) ==
    [customerPhone |-> proc[p].customerPhone, message |-> proc[p].message,
     pushed |-> pushed, delivered |-> TRUE, by |-> Caller(p)]

outcome(p, pushed, delivered) ==
    [customerPhone |-> proc[p].customerPhone, message |-> proc[p].message,
     pushed |-> pushed, delivered |-> delivered, by |-> Caller(p)]

\* The directory after session.say has settled: a push that threw unregisters
\* the phone.
afterPushKeeps(customerPhone, ok) == activeSessions

afterPushEvicts(customerPhone, ok) == unregisterSession(customerPhone)

afterPush(customerPhone, ok) ==
    IF ok THEN activeSessions ELSE unregisterSession(customerPhone)

\* notifyCustomer -> sendMessageToCustomer up to "await session.say(message)".
notifyCustomer(p) ==
    /\ proc[p].pc = "notifyCustomer"
    /\ IF ~isSessionActive(proc[p].customerPhone)
       THEN /\ customerNotified' = {outcome(p, FALSE, FALSE)}
            /\ AfterNotify(p)
       ELSE /\ proc' = [proc EXCEPT ![p] =
                    [pc |-> "session.say", locals |-> proc[p].locals,
                     customerPhone |-> proc[p].customerPhone, message |-> proc[p].message,
                     session |-> activeSessions[proc[p].customerPhone].session]]
            /\ response' = null
            /\ customerNotified' = {}
    /\ supervisorNotified' = {}
    /\ UNCHANGED <<clock, helpRequests, knowledge, pendingFollowUps, activeSessions, sessions>>

\* session.say settles: it can only succeed on a running session; when it
\* throws, the phone's entry is unregistered.
sayComplete(p, ok) ==
    /\ proc[p].pc = "session.say"
    /\ ok => Running(proc[p].session)
    /\ activeSessions' = afterPush(proc[p].customerPhone, ok)
    /\ customerNotified' = {outcome(p, TRUE, ok)}
    /\ supervisorNotified' = {}
    /\ AfterNotify(p)
    /\ UNCHANGED <<clock, helpRequests, knowledge, pendingFollowUps, sessions>>

(***************************************************************************)
(* Supervisor UI (server.ts) and the store functions it shares with the    *)
(* poller                                                                  *)
(***************************************************************************)
MayLearn(load) ==
    Cardinality(learned(knowledge)) + Cardinality(Learning) < load.learned

unknownId == <<"req", 0, 0>>

\* A resolution that carries the answer and no resolvedAt.
resolutionUndated(answer) == [status |-> RESOLVED, supervisorAnswer |-> answer]

\* The updates the respond endpoint passes to updateHelpRequest.
resolution(answer) ==
    [status |-> RESOLVED, supervisorAnswer |-> answer, resolvedAt |-> clock]

\* A respond endpoint that does not look at the answer it is given.
RespondUnvalidated(p, id, answer, load) ==
    /\ p \in Responders /\ MayStart(p, load) /\ MayLearn(load)
    /\ proc' = [proc EXCEPT ![p] =
            [pc |-> "updateHelpRequest:read", locals |-> [answer |-> answer],
             id |-> id, updates |-> resolution(answer)]]
    /\ Silent
    /\ UNCHANGED <<clock, helpRequests, knowledge, pendingFollowUps, activeSessions, sessions>>

\* POST /api/help-requests/:id/respond up to "await updateHelpRequest(...)".
Respond(p, id, answer, load) ==
    /\ p \in Responders /\ MayStart(p, load)
    /\ IF answer = ""
       THEN /\ response' = [handler |-> "respond", status |-> 400]
            /\ UNCHANGED proc
       ELSE /\ MayLearn(load)
            /\ proc' = [proc EXCEPT ![p] =
                    [pc |-> "updateHelpRequest:read", locals |-> [answer |-> answer],
                     id |-> id,
                     updates |-> resolution(answer)]]
            /\ response' = null
    /\ customerNotified' = {} /\ supervisorNotified' = {}
    /\ UNCHANGED <<clock, helpRequests, knowledge, pendingFollowUps, activeSessions, sessions>>

\* What follows updateHelpRequest: the respond endpoint answers 404 or goes on
\* to addKnowledge; the poller goes on to the next pending request.
AfterUpdate(p, updated) ==
    IF p \in Responders
    THEN IF updated = null
         THEN /\ proc' = [proc EXCEPT ![p] = Idle]
              /\ response' = [handler |-> "respond", status |-> 404]
         ELSE /\ proc' = [proc EXCEPT ![p] =
                    [pc |-> "addKnowledge:read",
                     locals |-> [answer |-> proc[p].locals.answer,
                                 updatedRequest |-> updated],
                     entry |-> [question |-> updated.question,
                                answer |-> proc[p].locals.answer,
                                source |-> "learned",
                                category |-> CatSupervisorLearned]]]
              /\ response' = null
    ELSE /\ proc' = [proc EXCEPT ![p] =
                pollerLoop(proc[p].locals.pendingRequests, proc[p].locals.i + 1)]
         /\ response' = null

\* updateHelpRequest: the collection is read, the record replaced in memory.
updateHelpRequestRead(p, ok) ==
    /\ proc[p].pc = "updateHelpRequest:read"
    /\ LET requests == readJsonFile(getAllHelpRequests, <<>>, ok)
           index == findIndex(requests, proc[p].id)
       IN  IF index = 0
           THEN AfterUpdate(p, null)
           ELSE LET updated == spread(requests[index], proc[p].updates) IN
                /\ proc' = [proc EXCEPT ![p] =
                        [pc |-> "updateHelpRequest:write", locals |-> proc[p].locals,
                         requests |-> [requests EXCEPT ![index] = updated],
                         updated |-> updated]]
                /\ response' = null
    /\ customerNotified' = {} /\ supervisorNotified' = {}
    /\ UNCHANGED <<clock, helpRequests, knowledge, pendingFollowUps, activeSessions, sessions>>

\* updateHelpRequest: the whole collection is written back.
updateHelpRequestWrite(p, ok) ==
    /\ proc[p].pc = "updateHelpRequest:write"
    /\ IF ok
       THEN /\ helpRequests' = proc[p].requests
            /\ AfterUpdate(p, proc[p].updated)
            /\ customerNotified' = {} /\ supervisorNotified' = {}
            /\ UNCHANGED <<clock, knowledge, pendingFollowUps, activeSessions, sessions>>
       ELSE Throws(p)

\* The for loop of seedKnowledgeBase from element i on: the next addKnowledge,
\* or the function returns and the seeder is done.
seedKnowledgeBase(i) ==
    IF i > Len(initialKnowledge) THEN [pc |-> "exit"]
    ELSE [pc |-> "addKnowledge:read", locals |-> [i |-> i], entry |-> initialKnowledge[i]]

\* What follows addKnowledge: the respond endpoint goes on to
\* followUpWithCustomer, seedKnowledgeBase to its next entry.
AfterAddKnowledge(p) ==
    IF p \in Seeders
    THEN seedKnowledgeBase(proc[p].locals.i + 1)
    ELSE [pc |-> "notifyCustomer", locals |-> proc[p].locals,
          customerPhone |-> proc[p].locals.updatedRequest.customerPhone,
          message |-> followUpMessage(proc[p].locals.answer)]

\* addKnowledge: the collection is read, the new entry pushed.
addKnowledgeRead(p, ok) ==
    /\ proc[p].pc = "addKnowledge:read"
    /\ LET kb == readJsonFile(getAllKnowledge, <<>>, ok) IN
       proc' = [proc EXCEPT ![p] =
            [pc |-> "addKnowledge:write", locals |-> proc[p].locals,
             knowledge |-> Append(kb, newKnowledgeEntry(kb, proc[p].entry))]]
    /\ response' = null
    /\ customerNotified' = {} /\ supervisorNotified' = {}
    /\ UNCHANGED <<clock, helpRequests, knowledge, pendingFollowUps, activeSessions, sessions>>

\* addKnowledge: the whole collection is written back.
addKnowledgeWrite(p, ok) ==
    /\ proc[p].pc = "addKnowledge:write"
    /\ IF ok
       THEN /\ knowledge' = proc[p].knowledge
            /\ proc' = [proc EXCEPT ![p] = AfterAddKnowledge(p)]
            /\ response' = null
            /\ customerNotified' = {} /\ supervisorNotified' = {}
            /\ UNCHANGED <<clock, helpRequests, pendingFollowUps, activeSessions, sessions>>
       ELSE Throws(p)

\* GET /api/help-requests/pending up to "await getPendingHelpRequests()".
GetPending(p, load) ==
    /\ p \in Getters /\ MayStart(p, load)
    /\ proc' = [proc EXCEPT ![p] = [pc |-> "getPendingHelpRequests:read"]]
    /\ response' = null
    /\ customerNotified' = {} /\ supervisorNotified' = {}
    /\ UNCHANGED <<clock, helpRequests, knowledge, pendingFollowUps, activeSessions, sessions>>

\* What follows getPendingHelpRequests: the endpoint answers with the list; the
\* poller loops over it.
AfterGetPending(p, pendingRequests) ==
    IF p \in Getters
    THEN /\ proc' = [proc EXCEPT ![p] = Idle]
         /\ response' = [handler |-> "pending", status |-> 200,
                         requests |-> pendingRequests]
    ELSE /\ proc' = [proc EXCEPT ![p] = pollerLoop(pendingRequests, 1)]
         /\ response' = null

\* getPendingHelpRequests: the collection is read and the expired pending
\* requests are marked TIMEOUT in memory.
getPendingHelpRequestsRead(p, ok) ==
    /\ proc[p].pc = "getPendingHelpRequests:read"
    /\ LET read == readJsonFile(getAllHelpRequests, <<>>, ok)
           requests == sweepTimeouts(read) IN
        IF hasChanges(read)
        THEN /\ proc' = [proc EXCEPT ![p] =
                    [pc |-> "getPendingHelpRequests:write", requests |-> requests]]
             /\ response' = null
        ELSE AfterGetPending(p, filterPending(requests))
    /\ customerNotified' = {} /\ supervisorNotified' = {}
    /\ UNCHANGED <<clock, helpRequests, knowledge, pendingFollowUps, activeSessions, sessions>>

\* getPendingHelpRequests: the whole collection is written back.
getPendingHelpRequestsWrite(p, ok) ==
    /\ proc[p].pc = "getPendingHelpRequests:write"
    /\ IF ok
       THEN /\ helpRequests' = proc[p].requests
            /\ AfterGetPending(p, filterPending(proc[p].requests))
            /\ customerNotified' = {} /\ supervisorNotified' = {}
            /\ UNCHANGED <<clock, knowledge, pendingFollowUps, activeSessions, sessions>>
       ELSE Throws(p)

(***************************************************************************)
(* Supervisor-response poller (notification.ts)                            *)
(***************************************************************************)
\* The setInterval callback fires: checkForSupervisorResponses up to
\* "await getPendingHelpRequests()".  Nothing keeps it from firing while an
\* earlier tick is still awaiting.
TimerFire(p, load) ==
    /\ p \in Tickers /\ MayStart(p, load)
    /\ proc' = [proc EXCEPT ![p] = [pc |-> "getPendingHelpRequests:read"]]
    /\ response' = null
    /\ customerNotified' = {} /\ supervisorNotified' = {}
    /\ UNCHANGED <<clock, helpRequests, knowledge, pendingFollowUps, activeSessions, sessions>>

RequestIds == {r.id : r \in Range(helpRequests)} \cup {unknownId}

\* What the store functions and the notification service do, whoever calls.
Shared(load) ==
    \/ \E p \in Procs, ok \in load.reads, at \in clockReads(load.drift) :
            createHelpRequestRead(p, ok, at)
    \/ \E p \in Procs, ok \in load.writes : createHelpRequestWrite(p, ok)
    \/ \E p \in Procs : notifySupervisor(p)
    \/ \E p \in Procs, ok \in load.reads : updateHelpRequestRead(p, ok)
    \/ \E p \in Procs, ok \in load.writes : updateHelpRequestWrite(p, ok)
    \/ \E p \in Procs, ok \in load.reads : addKnowledgeRead(p, ok)
    \/ \E p \in Procs, ok \in load.writes : addKnowledgeWrite(p, ok)
    \/ \E p \in Procs : notifyCustomer(p)
    \/ \E p \in Procs, ok \in BOOLEAN : sayComplete(p, ok)
    \/ \E p \in Procs, ok \in load.reads : getPendingHelpRequestsRead(p, ok)
    \/ \E p \in Procs, ok \in load.writes : getPendingHelpRequestsWrite(p, ok)

\* The escalation lifecycle around one call from the default phone.
Lifecycle(load) ==
    \/ AdvanceClock
    \/ JobEntry("s1", DefaultPhone)
    \/ SessionStarted("s1")
    \/ RoomConnected("s1")
    \/ SessionClose("s1")
    \/ \E p \in Agents, query \in Queries : SearchKnowledgeTool(p, "s1", query, load)
    \/ \E p \in Agents, question \in Questions : RequestHelpTool(p, "s1", question, load)
    \/ \E p \in Responders, id \in RequestIds, answer \in load.answers :
            Respond(p, id, answer, load)
    \/ \E p \in Getters : GetPending(p, load)
    \/ \E p \in Tickers : TimerFire(p, load)
    \/ Shared(load)

\* Handlers one at a time.
Next == Lifecycle(SequentialLoad)

Spec == Init /\ [][Next]_vars

\* The live-session directory under the calls of two jobs.
SessionNext ==
    \/ AdvanceClock
    \/ \E s \in Sessions, customerPhone \in Phones : JobEntry(s, customerPhone)
    \/ \E s \in Sessions : SessionStarted(s)
    \/ \E s \in Sessions : RoomConnected(s)
    \/ \E s \in Sessions : EntryFailed(s)
    \/ \E s \in Sessions : SessionClose(s)

SessionSpec == Init /\ [][SessionNext]_vars

\* Handlers interleaved at their awaits.
ConcurrentNext == Lifecycle(ConcurrentLoad)

ConcurrentSpec == Init /\ [][ConcurrentNext]_vars

\* One escalation, with what the code's scheduling guarantees: the interval
\* timer keeps firing, and every awaited file operation settles.
SingleNext == Lifecycle(SingleLoad)

Tick == \E p \in Tickers : TimerFire(p, SingleLoad)

FairSpec == Init /\ [][SingleNext]_vars /\ SF_vars(Tick) /\ WF_vars(Shared(SingleLoad))

\* The same, on a clock that keeps advancing.
PollingSpec ==
    Init /\ [][SingleNext]_vars /\ SF_vars(Tick) /\ WF_vars(Shared(SingleLoad))
        /\ WF_vars(AdvanceClock)

\* Handlers one at a time, over data files whose reads may fail.
FaultyNext == Lifecycle(FaultyLoad)

FaultySpec == Init /\ [][FaultyNext]_vars

\* One escalation, under the calls of two jobs from the same phone: the second
\* call may be registered while a push to the first is in flight.
HandoverNext ==
    \/ AdvanceClock
    \/ \E s \in Sessions : JobEntry(s, DefaultPhone)
    \/ \E s \in Sessions : SessionStarted(s)
    \/ \E s \in Sessions : RoomConnected(s)
    \/ \E s \in Sessions : SessionClose(s)
    \/ \E p \in Agents, s \in Sessions, query \in Queries :
            SearchKnowledgeTool(p, s, query, SingleLoad)
    \/ \E p \in Agents, s \in Sessions, question \in Questions :
            RequestHelpTool(p, s, question, SingleLoad)
    \/ \E p \in Responders, id \in RequestIds, answer \in SingleLoad.answers :
            Respond(p, id, answer, SingleLoad)
    \/ \E p \in Getters : GetPending(p, SingleLoad)
    \/ \E p \in Tickers : TimerFire(p, SingleLoad)
    \/ Shared(SingleLoad)

HandoverSpec == Init /\ [][HandoverNext]_vars

(***************************************************************************)
(* Database initialisation (init.ts, seed.ts)                              *)
(***************************************************************************)
\* The data directory before the database is initialised, or after.
SeedInit ==
    /\ clock = 0
    /\ helpRequests = <<>>
    /\ knowledge \in {<<>>, seeded}
    /\ pendingFollowUps = <<>>
    /\ activeSessions = <<>>
    /\ sessions = [s \in Sessions |-> [pc |-> "new", state |-> "init"]]
    /\ proc = [p \in Procs |-> Idle]
    /\ response = null
    /\ customerNotified = {}
    /\ supervisorNotified = {}

NotRun == \A p \in Seeders : proc[p].pc = "idle"

\* init.ts is run: its import of seed.ts evaluates that module, whose last
\* statement calls main(); then the body of init.ts calls initDatabase().  Both
\* are at their "await getAllKnowledge()" when the module graph is evaluated.
RunInit ==
    /\ NotRun
    /\ proc' = [proc EXCEPT !["main"] = [pc |-> "getAllKnowledge"],
                            !["initDatabase"] = [pc |-> "getAllKnowledge"]]
    /\ Silent
    /\ UNCHANGED <<clock, helpRequests, knowledge, pendingFollowUps, activeSessions, sessions>>

\* seed.ts is run by itself: main() alone.
RunSeed ==
    /\ NotRun
    /\ proc' = [proc EXCEPT !["main"] = [pc |-> "getAllKnowledge"]]
    /\ Silent
    /\ UNCHANGED <<clock, helpRequests, knowledge, pendingFollowUps, activeSessions, sessions>>

\* initDatabase, and main of seed.ts, which is the same code: an empty
\* knowledge base is seeded, any other is left alone.
initDatabase(p) ==
    /\ p \in Seeders
    /\ proc[p].pc = "getAllKnowledge"
    /\ LET existing == readJsonFile(getAllKnowledge, <<>>, TRUE) IN
        proc' = [proc EXCEPT ![p] =
            IF Len(existing) = 0 THEN seedKnowledgeBase(1) ELSE [pc |-> "exit"]]
    /\ Silent
    /\ UNCHANGED <<clock, helpRequests, knowledge, pendingFollowUps, activeSessions, sessions>>

SeedNext ==
    \/ RunInit
    \/ RunSeed
    \/ \E p \in Seeders : initDatabase(p)
    \/ \E p \in Seeders : addKnowledgeRead(p, TRUE)
    \/ \E p \in Seeders : addKnowledgeWrite(p, TRUE)

SeedSpec == SeedInit /\ [][SeedNext]_vars

\* Handlers one at a time, on a system clock that may tick within a handler.
DriftingNext == Lifecycle(DriftingLoad)

DriftingSpec == Init /\ [][DriftingNext]_vars

(***************************************************************************)
(* searchKnowledge by itself (store.ts)                                    *)
(***************************************************************************)
\* Queries of one word: two members of the synonym group of "price", and the
\* word whose synonyms hold the stop word "where".
QPrice == <<"p", "r", "i", "c", "e">>
QRate == <<"r", "a", "t", "e">>
QLocation == <<"l", "o", "c", "a", "t", "i", "o", "n">>

SearchQueries == Queries \cup {QPrice, QRate, QLocation}

\* The entries a knowledge base is drawn from: the seed entries, and an
\* escalated question learned twice, with two answers.
learnedTwice ==
    {[question |-> QParking, answer |-> a, source |-> "learned",
      category |-> CatSupervisorLearned, id |-> <<"kb", 0, 6>>,
      createdAt |-> 0, updatedAt |-> 0] : a \in Answers \ {""}}

MaxStored == 2

\* The contents of knowledge-base.json: up to MaxStored different entries in
\* any order, or the seed entries as seeded.
Stores ==
    {seeded}
        \cup UNION {{kb \in [1..n -> Range(seeded) \cup learnedTwice] :
                        \A i, j \in 1..n : i # j => kb[i] # kb[j]} : n \in 0..MaxStored}

SearchInit ==
    /\ clock = 0
    /\ helpRequests = <<>>
    /\ knowledge \in Stores
    /\ pendingFollowUps = <<>>
    /\ activeSessions = <<>>
    /\ sessions = [s \in Sessions |-> [pc |-> "new", state |-> "init"]]
    /\ proc = [p \in Procs |-> Idle]
    /\ response = null
    /\ customerNotified = {}
    /\ supervisorNotified = {}

\* searchKnowledge(query): getAllKnowledge, the scores, the best match or null.
Search(query) ==
    /\ response' = [handler |-> "searchKnowledge", query |-> query,
                    result |-> searchKnowledge(readJsonFile(getAllKnowledge, <<>>, TRUE),
                                               query)]
    /\ customerNotified' = {} /\ supervisorNotified' = {}
    /\ UNCHANGED <<clock, helpRequests, knowledge, pendingFollowUps, activeSessions,
                   sessions, proc>>

SearchNext == \E query \in SearchQueries : Search(query)

SearchSpec == SearchInit /\ [][SearchNext]_vars

(***************************************************************************)
(* WebhookNotificationService (selected by SUPERVISOR_WEBHOOK_URL)          *)
(***************************************************************************)
\* How the POST to the webhook settles: a success status, another status, or
\* a rejected fetch.
Fetches == {"ok", "status", "throws"}

\* One handler at a time, one escalation.
WebhookLoad ==
    [inFlight |-> 1, requests |-> 1, learned |-> 1, answers |-> {"", "No"},
     reads |-> {TRUE}, writes |-> {TRUE}, drift |-> {0}]

\* WebhookNotificationService.notifySupervisor up to the settling of
\* "await fetch(...)".
webhookNotifySupervisor(p, fetched) ==
    /\ proc[p].pc = "notifySupervisor"
    /\ proc' = [proc EXCEPT ![p] =
            spread(proc[p], [pc |-> "fetch", type |-> "supervisor_notification",
                             fetched |-> fetched])]
    /\ Silent
    /\ UNCHANGED <<clock, helpRequests, knowledge, pendingFollowUps, activeSessions, sessions>>

\* After the fetch: a status that is not ok is logged as an error; a rejected
\* fetch is caught and the request handed to a ConsoleNotificationService.
\* Then the tool returns the reference.
webhookSupervisorNotified(p) ==
    /\ proc[p].pc = "fetch" /\ proc[p].type = "supervisor_notification"
    /\ supervisorNotified' =
            IF proc[p].fetched = "throws" THEN {proc[p].helpRequest} ELSE {}
    /\ response' = [handler |-> proc[p].tool, escalated |-> proc[p].helpRequest.id]
    /\ customerNotified' = {}
    /\ proc' = [proc EXCEPT ![p] = Idle]
    /\ UNCHANGED <<clock, helpRequests, knowledge, pendingFollowUps, activeSessions, sessions>>

\* WebhookNotificationService.notifyCustomer up to the settling of
\* "await fetch(...)".
webhookNotifyCustomer(p, fetched) ==
    /\ proc[p].pc = "notifyCustomer" /\ "fallback" \notin DOMAIN proc[p]
    /\ proc' = [proc EXCEPT ![p] =
            spread(proc[p], [pc |-> "fetch", type |-> "customer_notification",
                             fetched |-> fetched])]
    /\ Silent
    /\ UNCHANGED <<clock, helpRequests, knowledge, pendingFollowUps, activeSessions, sessions>>

\* After the fetch: a rejected fetch is caught and the message handed to
\* notifyCustomer of a ConsoleNotificationService; otherwise the caller goes on.
webhookCustomerNotified(p) ==
    /\ proc[p].pc = "fetch" /\ proc[p].type = "customer_notification"
    /\ IF proc[p].fetched = "throws"
       THEN /\ proc' = [proc EXCEPT ![p] =
                    [pc |-> "notifyCustomer", locals |-> proc[p].locals,
                     customerPhone |-> proc[p].customerPhone,
                     message |-> proc[p].message, fallback |-> TRUE]]
            /\ response' = null
       ELSE AfterNotify(p)
    /\ customerNotified' = {} /\ supervisorNotified' = {}
    /\ UNCHANGED <<clock, helpRequests, knowledge, pendingFollowUps, activeSessions, sessions>>

\* The escalation lifecycle with the webhook service: no poller is started.
WebhookNext ==
    \/ AdvanceClock
    \/ JobEntry("s1", DefaultPhone)
    \/ SessionStarted("s1")
    \/ RoomConnected("s1")
    \/ SessionClose("s1")
    \/ \E p \in Agents, query \in Queries : SearchKnowledgeTool(p, "s1", query, WebhookLoad)
    \/ \E p \in Agents, question \in Questions :
            RequestHelpTool(p, "s1", question, WebhookLoad)
    \/ \E p \in Responders, id \in RequestIds, answer \in WebhookLoad.answers :
            Respond(p, id, answer, WebhookLoad)
    \/ \E p \in Getters : GetPending(p, WebhookLoad)
    \/ \E p \in Procs, at \in clockReads(WebhookLoad.drift) :
            createHelpRequestRead(p, TRUE, at)
    \/ \E p \in Procs : createHelpRequestWrite(p, TRUE)
    \/ \E p \in Procs, fetched \in Fetches : webhookNotifySupervisor(p, fetched)
    \/ \E p \in Procs : webhookSupervisorNotified(p)
    \/ \E p \in Procs : updateHelpRequestRead(p, TRUE)
    \/ \E p \in Procs : updateHelpRequestWrite(p, TRUE)
    \/ \E p \in Procs : addKnowledgeRead(p, TRUE)
    \/ \E p \in Procs : addKnowledgeWrite(p, TRUE)
    \/ \E p \in Procs, fetched \in Fetches : webhookNotifyCustomer(p, fetched)
    \/ \E p \in Procs : webhookCustomerNotified(p)
    \/ \E p \in Procs : "fallback" \in DOMAIN proc[p] /\ notifyCustomer(p)
    \/ \E p \in Procs, ok \in BOOLEAN : sayComplete(p, ok)
    \/ \E p \in Procs : getPendingHelpRequestsRead(p, TRUE)
    \/ \E p \in Procs : getPendingHelpRequestsWrite(p, TRUE)

WebhookSpec == Init /\ [][WebhookNext]_vars

(***************************************************************************)
(* Properties                                                              *)
(***************************************************************************)
Terminal == {RESOLVED, TIMEOUT}

\* The version of a request, by id, that a collection holds.
versions(requests, id) == {r \in Range(requests) : r.id = id}

\* C1: resolved and timeout are terminal: no step changes the status of a
\* request whose status is resolved or timeout.
TerminalStatusesStay ==
    [][\A r \in Range(helpRequests) :
            r.status \in Terminal
                => \A r2 \in versions(helpRequests', r.id) : r2.status = r.status]_vars

resolvedRequests == {i \in DOMAIN helpRequests : "resolvedAt" \in DOMAIN helpRequests[i]}

\* C2: when no handler is in flight there is exactly one learned entry for each
\* request that has been resolved, never two, and every learned entry carries
\* the question of a request and that request's current supervisorAnswer.
OneLearnedEntryPerResolved ==
    InFlight = {} =>
        /\ Cardinality(learned(knowledge)) = Cardinality(resolvedRequests)
        /\ \A k \in learned(knowledge) :
                \E i \in resolvedRequests :
                    /\ helpRequests[i].question = knowledge[k].question
                    /\ helpRequests[i].supervisorAnswer = knowledge[k].answer

SomeRequestResolved == resolvedRequests # {}

PollerNotifies == \E t \in Tickers : proc[t].pc \in {"notifyCustomer", "session.say"}

\* C3: a request resolved through the respond endpoint (its resolvedAt is set)
\* is eventually picked up by a tick of the poller, which then invokes
\* notifyCustomer for it.
ResolvedIsPickedUp == SomeRequestResolved ~> PollerNotifies

\* What C4 is about never happens: every request that has resolvedAt has the
\* status resolved, so the pending list of a tick holds no answered request
\* and no tick reaches notifyCustomer or the settle-mark that follows it.
AnsweredIsResolved ==
    /\ \A i \in resolvedRequests : helpRequests[i].status = RESOLVED
    /\ ~PollerNotifies

\* C5: ticks of the poller never overlap: at no time are two executions of
\* checkForSupervisorResponses in flight.
TicksNeverOverlap == Cardinality(Tickers \cap InFlight) <= 1

\* C6: the timeout sweep never flaps: a request that the stored collection
\* shows as timeout is shown as timeout by it after every step, whatever
\* operation the step belongs to.
TimeoutNeverFlaps ==
    [][\A r \in Range(getAllHelpRequests) :
            r.status = TIMEOUT
                => \E r2 \in versions(helpRequests', r.id) : r2.status = TIMEOUT]_vars

\* C7: every request with status resolved was answered before its deadline:
\* its resolvedAt is earlier than its timeoutAt.
ResolvedBeforeDeadline ==
    \A r \in Range(helpRequests) :
        r.status = RESOLVED => r.resolvedAt < r.timeoutAt

\* C8: whenever notifyCustomer ends without delivering, a pending follow-up
\* with the customer's phone and the message is in the follow-up collection.
UndeliveredIsQueued ==
    \A n \in customerNotified :
        ~n.delivered
            => \E f \in Range(pendingFollowUps) :
                    f.customerPhone = n.customerPhone /\ f.message = n.message

\* A session that entry() has registered and that has not closed.
Open(s) == sessions[s].pc = "registered" /\ Running(s)

\* C9: every entry of the live-session directory belongs to a session that is
\* running, and every registered session that is still running has its phone
\* in the directory (the close of another session has not removed it).
DirectoryHoldsOpenSessions ==
    /\ \A p \in DOMAIN activeSessions : Running(activeSessions[p].session)
    /\ \A s \in Sessions : Open(s) => isSessionActive(sessions[s].customerPhone)

\* Whether the query has a substring, category or keyword match with the entry.
matches(entry, query) ==
    LET normalizedQuery == normalize(query)
        expanded == expandedQueryWords(normalizedQuery)
        normalizedQuestion == normalize(entry.question)
        qWords == questionWords(normalizedQuestion)
    IN  \/ substringScore(normalizedQuestion, normalizedQuery) > 0
        \/ categoryScore(entry, expanded) > 0
        \/ matchCount(qWords, expanded) > 0
        \/ partialMatches(qWords, expanded) > 0

matchCache == [query \in Queries |-> [e \in KnownEntries |-> matches(e, query)]]

unknown(kb, query) == \A i \in DOMAIN kb : ~matchCache[query][scoredFields(kb[i])]

\* C10: a query that matches no stored entry resolves to none, and the
\* searchKnowledge tool does not answer it from the knowledge base.
UnknownIsEscalated ==
    \A query \in Queries :
        unknown(knowledge, query)
            => /\ searchKnowledge(knowledge, query) = null
               /\ ~(/\ response # null
                    /\ response.handler = "searchKnowledge"
                    /\ "answer" \in DOMAIN response
                    /\ response.query = query)

\* The respond handler p completes addKnowledge in this step.
Learns(p) == proc[p].pc = "addKnowledge:write" /\ proc'[p].pc # "addKnowledge:write"

\* C11: once a resolution has stored its learned entry, searching for the
\* request's exact question returns that entry (here: as long as every request
\* has been resolved at most once).
LearnedIsReturned ==
    [][\A p \in Responders :
            (Learns(p) /\ Cardinality(learned(knowledge')) = Cardinality(resolvedRequests))
                => searchKnowledge(knowledge', proc[p].locals.updatedRequest.question)
                        = knowledge'[Len(knowledge')]]_vars

\* C12: a data file that cannot be read leaves the persisted collections as
\* they were: with handlers running one at a time, no step removes a stored
\* request or a stored knowledge entry.
FailedReadKeepsCollections ==
    [][/\ \A r \in Range(helpRequests) : versions(helpRequests', r.id) # {}
       /\ Range(knowledge) \subseteq Range(knowledge')]_vars

WriteSteps ==
    {"createHelpRequest:write", "updateHelpRequest:write", "getPendingHelpRequests:write"}

\* Handler p writes its in-memory collection back to help-requests.json.
WritesBack(p) == proc[p].pc \in WriteSteps /\ proc'[p].pc # proc[p].pc

\* The collection p is about to write is what its operation makes of the file
\* as it is now: nothing has changed the file under it.
Fresh(p) ==
    LET requests == proc[p].requests IN
    CASE proc[p].pc = "createHelpRequest:write" ->
            requests = Append(helpRequests, proc[p].newRequest)
      [] proc[p].pc = "updateHelpRequest:write" ->
            \E i \in DOMAIN helpRequests :
                /\ helpRequests[i].id = proc[p].updated.id
                /\ DOMAIN helpRequests[i] \subseteq DOMAIN proc[p].updated
                /\ requests = [helpRequests EXCEPT ![i] = proc[p].updated]
      [] proc[p].pc = "getPendingHelpRequests:write" ->
            requests = sweepTimeouts(helpRequests)
      [] OTHER -> FALSE

\* A step after which a stored request is gone, has lost a field (its
\* resolution), or is pending again.
LosesWrite ==
    \E i \in DOMAIN helpRequests :
        \/ i \notin DOMAIN helpRequests'
        \/ helpRequests'[i].id # helpRequests[i].id
        \/ ~(DOMAIN helpRequests[i] \subseteq DOMAIN helpRequests'[i])
        \/ helpRequests[i].status # PENDING /\ helpRequests'[i].status = PENDING

\* C13: a completed write is lost only by the write-back of a handler whose
\* in-memory collection no longer is what its operation makes of the file:
\* each read-modify-write loses nothing by itself, the loss needs two of
\* them interleaved.
LossOnlyByStaleWriteBack ==
    [][LosesWrite => \E p \in Procs : WritesBack(p) /\ ~Fresh(p)]_vars

\* C13, the case: a learned entry exists, so the resolution of its request was
\* written, and no stored request with that question has an answer.
ResolutionLost ==
    \E k \in learned(knowledge) :
        /\ \E r \in Range(helpRequests) : r.question = knowledge[k].question
        /\ \A r \in Range(helpRequests) :
                r.question = knowledge[k].question => "supervisorAnswer" \notin DOMAIN r

\* The tool returns the id of the request it created, and the stored
\* collection no longer holds it.
CreationLost ==
    /\ response # null
    /\ "escalated" \in DOMAIN response
    /\ versions(helpRequests, response.escalated) = {}

\* A push to a live session that failed, as the respond handler's step logs it.
PushFailed(n) == n.pushed /\ ~n.delivered

\* C14: when the push to a live session fails, the phone's entry is removed
\* from the directory, notifyCustomer is told false, and the respond endpoint
\* still answers 200.
FailedPushIsAbsorbed ==
    \A n \in customerNotified :
        PushFailed(n)
            => /\ ~isSessionActive(n.customerPhone)
               /\ n.by = "respond"
                    => response # null /\ response.handler = "respond"
                        /\ response.status = 200

FailedPushAnswered == \E n \in customerNotified : PushFailed(n) /\ n.by = "respond"

\* Handler p's awaited session.say settles in this step.
Pushed(p) == proc[p].pc = "session.say" /\ proc'[p].pc # "session.say"

\* C15: when a live session exists and the push to it succeeds (notifyCustomer
\* is told true), the step leaves the directory as it was, and the directory
\* still holds the phone's entry.
HealthyPushKeepsEntry ==
    [][\A p \in Procs :
            (Pushed(p) /\ customerNotified' = {outcome(p, TRUE, TRUE)})
                => /\ activeSessions' = activeSessions
                   /\ proc[p].customerPhone \in DOMAIN activeSessions']_vars

PushDelivered == \E n \in customerNotified : n.pushed /\ n.delivered

\* Handler p's notifyCustomer finds no session for the phone in this step.
FindsNoSession(p) ==
    /\ proc[p].pc = "notifyCustomer" /\ proc'[p].pc # "notifyCustomer"
    /\ ~isSessionActive(proc[p].customerPhone)

\* C16: when no live session exists for the phone, notifyCustomer is told
\* false and the directory is left exactly as it was.
NoSessionNoEffect ==
    [][\A p \in Procs :
            FindsNoSession(p)
                => /\ customerNotified' # {}
                   /\ \A n \in customerNotified' :
                        /\ n.customerPhone = proc[p].customerPhone
                        /\ ~n.pushed
                        /\ ~n.delivered
                   /\ activeSessions' = activeSessions]_vars

NotPushed == \E n \in customerNotified : ~n.pushed /\ ~n.delivered

\* C17: the addKnowledge of a respond call adds exactly one entry to the
\* knowledge collection: the count is one higher, the entries stored before are
\* unchanged and in place, and the new entry is a learned one whose question is
\* the question of the request being resolved and whose answer is the answer
\* the caller supplied.
ResolveLearnsOneEntry ==
    [][\A p \in Responders :
            Learns(p)
                => /\ Len(knowledge') = Len(knowledge) + 1
                   /\ SubSeq(knowledge', 1, Len(knowledge)) = knowledge
                   /\ LET new == knowledge'[Len(knowledge')] IN
                        /\ new.source = "learned"
                        /\ new.answer = proc[p].locals.answer
                        /\ \E i \in DOMAIN helpRequests :
                              /\ helpRequests[i].id = proc[p].locals.updatedRequest.id
                              /\ helpRequests[i].status = RESOLVED
                              /\ helpRequests[i].supervisorAnswer = new.answer
                              /\ helpRequests[i].question = new.question]_vars

LearnedFromResolution ==
    /\ Cardinality(learned(knowledge)) = 1
    /\ \E i \in resolvedRequests, k \in learned(knowledge) :
        /\ knowledge[k].question = helpRequests[i].question
        /\ knowledge[k].answer = helpRequests[i].supervisorAnswer

\* C18: in every reachable state every stored request has resolvedAt and
\* supervisorAnswer both, or neither of them.
AnswerAndDateTogether ==
    \A r \in Range(helpRequests) :
        "resolvedAt" \in DOMAIN r <=> "supervisorAnswer" \in DOMAIN r

AnsweredAndOpenStored ==
    /\ \E r \in Range(helpRequests) : {"resolvedAt", "supervisorAnswer"} \subseteq DOMAIN r
    /\ \E r \in Range(helpRequests) : {"resolvedAt", "supervisorAnswer"} \cap DOMAIN r = {}

\* The pending-list endpoint answers in this step.
ListsPending(p) ==
    /\ proc[p].pc \in {"getPendingHelpRequests:read", "getPendingHelpRequests:write"}
    /\ proc'[p] = Idle
    /\ response' # null /\ response'.handler = "pending"

\* The stored requests, each pending one whose timeoutAt lies before the
\* instant marked timeout and everything else as it is.
swept(requests, instant) ==
    [i \in DOMAIN requests |->
        IF requests[i].status = PENDING /\ requests[i].timeoutAt < instant
        THEN [requests[i] EXCEPT !.status = TIMEOUT]
        ELSE requests[i]]

\* C19: a pending-list read first turns every stored request that is pending
\* and whose timeoutAt has passed into a timeout one and persists that, leaving
\* every other request as it is; the list it then returns is exactly the stored
\* requests that are still pending, in storage order.
PendingReadSweepsThenLists ==
    [][\A p \in Getters :
        /\ (proc[p].pc = "getPendingHelpRequests:read" /\ proc'[p].pc # proc[p].pc)
                => /\ helpRequests' = helpRequests
                   /\ proc'[p] = Idle => helpRequests = swept(helpRequests, clock)
                   /\ proc'[p] # Idle => proc'[p].requests = swept(helpRequests, clock)
        /\ (proc[p].pc = "getPendingHelpRequests:write" /\ proc'[p].pc # proc[p].pc)
                => /\ helpRequests' = proc[p].requests
                   /\ helpRequests' # helpRequests
        /\ ListsPending(p)
                => response'.requests
                        = SelectSeq(helpRequests', LAMBDA r : r.status = PENDING)]_vars

SweptAndListed ==
    /\ response # null /\ response.handler = "pending"
    /\ response.requests # <<>>
    /\ \E r \in Range(helpRequests) : r.status = TIMEOUT

\* escalateToSupervisor returns the id of the request it created.
Escalated(p) == proc[p].pc = "notifySupervisor" /\ proc'[p] = Idle

\* C20: the request createHelpRequest builds is pending and carries the
\* customerPhone and question passed in; when escalateToSupervisor returns its
\* id that request is stored; and a pending-list read lists every stored
\* pending request whose timeoutAt has not passed, so a read made right after
\* the escalation returned lists the new request as it was created.
CreatedIsListed ==
    [][/\ \A p \in Agents :
            /\ (proc[p].pc = "createHelpRequest:read" /\ proc'[p].pc # proc[p].pc)
                    => LET new == proc'[p].newRequest IN
                        /\ new.status = PENDING
                        /\ new.customerPhone = proc[p].request.customerPhone
                        /\ new.question = proc[p].request.question
                        /\ new.createdAt = clock
                        /\ new.timeoutAt > clock
            /\ Escalated(p)
                    => \E i \in DOMAIN helpRequests' :
                        /\ helpRequests'[i] = proc[p].helpRequest
                        /\ helpRequests'[i].id = response'.escalated
       /\ \A p \in Getters :
            ListsPending(p)
                => \A i \in DOMAIN helpRequests :
                        (helpRequests[i].status = PENDING /\ helpRequests[i].timeoutAt >= clock)
                            => helpRequests[i] \in Range(response'.requests)]_vars

NewRequestListed ==
    /\ response # null /\ response.handler = "pending"
    /\ \E r \in Range(response.requests) :
        /\ r.createdAt = clock
        /\ r.status = PENDING
        /\ r \in Range(helpRequests)

\* C21: every stored request has a timeoutAt that is exactly its createdAt
\* plus one hour, whatever the clock did between the clock reads of
\* createHelpRequest.
TimeoutIsCreatedPlusHour ==
    \A r \in Range(helpRequests) : r.timeoutAt = r.createdAt + HOUR

\* C22: in every reachable state no two stored requests share an id, requests
\* created in the same instant included.
RequestIdsAreUnique ==
    \A i, j \in DOMAIN helpRequests :
        helpRequests[i].id = helpRequests[j].id => i = j

\* The respond endpoint answers with the given status in this step.
Rejects(p, status) ==
    /\ proc[p].pc \in {"idle", "updateHelpRequest:read"}
    /\ proc'[p] = Idle
    /\ response' # null /\ response'.handler = "respond" /\ response'.status = status

\* C23: a respond call that is rejected has no side effects.  A call with an
\* empty answer is answered 400 at once and never goes on to updateHelpRequest;
\* a call whose id is not in the collection is answered 404, and only such a
\* call is; in both cases the help requests, the knowledge base and the session
\* directory are as they were and notifyCustomer is not called.
RejectedRespondHasNoEffect ==
    [][\A p \in Responders :
        /\ "locals" \in DOMAIN proc'[p] => proc'[p].locals.answer # ""
        /\ Rejects(p, 400) => proc[p].pc = "idle"
        /\ (proc[p].pc = "updateHelpRequest:read" /\ proc'[p].pc # proc[p].pc)
                => (Rejects(p, 404) <=> findIndex(helpRequests, proc[p].id) = 0)
        /\ (Rejects(p, 400) \/ Rejects(p, 404))
                => /\ helpRequests' = helpRequests
                   /\ knowledge' = knowledge
                   /\ activeSessions' = activeSessions
                   /\ pendingFollowUps' = pendingFollowUps
                   /\ customerNotified' = {}]_vars

UnknownIdRejected ==
    /\ response # null /\ response.handler = "respond" /\ response.status = 404
    /\ helpRequests # <<>>

\* A write of the help requests file throws inside a tick of the poller.
TickFails(p) ==
    /\ proc[p].pc \in {"getPendingHelpRequests:write", "updateHelpRequest:write"}
    /\ proc'[p].pc # proc[p].pc
    /\ helpRequests' = helpRequests

TickSteps ==
    {"idle", "getPendingHelpRequests:read", "getPendingHelpRequests:write",
     "notifyCustomer", "session.say", "updateHelpRequest:read", "updateHelpRequest:write"}

OthersKept(customerPhone) ==
    /\ DOMAIN activeSessions' \ {customerPhone} = DOMAIN activeSessions \ {customerPhone}
    /\ \A q \in DOMAIN activeSessions \ {customerPhone} : activeSessions'[q] = activeSessions[q]

\* C25: the directory holds at most one entry for a phone (no two entries carry
\* the same customerPhone, and an entry is filed under its own); a registration
\* leaves the phone with the entry of the new session and its room, whether or
\* not the phone had an entry, and touches no other phone's entry; the Close
\* handler's unregistration removes the phone's entry and no other.
OneEntryPerPhone ==
    [][/\ \A p, q \in DOMAIN activeSessions' :
            /\ activeSessions'[p].customerPhone = p
            /\ activeSessions'[p].session = activeSessions'[q].session => p = q
       /\ \A s \in Sessions :
            /\ (sessions[s].pc = "ctx.connect" /\ sessions'[s].pc = "registered")
                    => /\ sessions[s].customerPhone \in DOMAIN activeSessions'
                       /\ activeSessions'[sessions[s].customerPhone].session = s
                       /\ activeSessions'[sessions[s].customerPhone].roomName = <<"room", s>>
                       /\ OthersKept(sessions[s].customerPhone)
            /\ (Running(s) /\ ~Running(s)')
                    => /\ sessions[s].customerPhone \notin DOMAIN activeSessions'
                       /\ OthersKept(sessions[s].customerPhone)]_vars

StaleEntryReplaced ==
    \E s, t \in Sessions :
        /\ s # t
        /\ sessions[s].pc = "registered" /\ sessions[t].pc = "registered"
        /\ Running(s) /\ Running(t)
        /\ sessions[s].customerPhone = sessions[t].customerPhone
        /\ isSessionActive(sessions[t].customerPhone)
        /\ activeSessions[sessions[t].customerPhone].session = t

\* The empty query and a query of white space only.
EmptyQueries == {<<>>, <<" ", " ">>}

FixedFields == {"id", "customerPhone", "question", "createdAt", "timeoutAt"}

\* C27: with handlers one at a time and reads that succeed, both collections
\* only grow: every step leaves each stored request in its place with its id,
\* customerPhone, question, createdAt and timeoutAt, taking no field from it and
\* adding none but resolvedAt and supervisorAnswer, and leaves each stored
\* knowledge entry in its place exactly as it was.
CollectionsAppendOnly ==
    [][/\ \A i \in DOMAIN helpRequests :
            /\ i \in DOMAIN helpRequests'
            /\ DOMAIN helpRequests[i] \subseteq DOMAIN helpRequests'[i]
            /\ DOMAIN helpRequests'[i]
                    \subseteq DOMAIN helpRequests[i] \cup {"resolvedAt", "supervisorAnswer"}
            /\ \A f \in FixedFields : helpRequests'[i][f] = helpRequests[i][f]
       /\ Len(knowledge') >= Len(knowledge)
       /\ SubSeq(knowledge', 1, Len(knowledge)) = knowledge]_vars

CollectionsGrown ==
    /\ \E r \in Range(helpRequests) : r.status = RESOLVED
    /\ \E r \in Range(helpRequests) : r.status = TIMEOUT
    /\ learned(knowledge) # {}

\* The database initialisation has run to its end.
Initialised ==
    /\ \E p \in Seeders : proc[p].pc = "exit"
    /\ \A p \in Seeders : proc[p].pc \in {"idle", "exit"}

\* C28: when the database initialisation has run to its end the knowledge base
\* holds each of the five seed entries exactly once and nothing else, whether
\* it was empty or seeded before.
SeedsExactlyOnce ==
    Initialised
        => /\ Len(knowledge) = Len(initialKnowledge)
           /\ \A i \in DOMAIN initialKnowledge :
                Cardinality({k \in DOMAIN knowledge :
                    knowledge[k].question = initialKnowledge[i].question}) = 1

\* C30: an escalateToSupervisor call first persists one new pending request,
\* appended to the stored ones, with no notification in that step or before
\* it; the supervisor is notified only in the step in which the call returns,
\* once, of the whole request as it is stored, and the reference returned is
\* that request's id.
PersistedThenNotified ==
    [][/\ \A p \in Agents :
            (proc[p].pc = "createHelpRequest:write" /\ proc'[p].pc = "notifySupervisor")
                => /\ helpRequests' = Append(helpRequests, proc[p].newRequest)
                   /\ proc[p].newRequest.status = PENDING
                   /\ supervisorNotified' = {}
       /\ supervisorNotified' # {}
            => \E p \in Agents :
                /\ Escalated(p)
                /\ supervisorNotified' = {helpRequests[Len(helpRequests)]}
                /\ helpRequests' = helpRequests
                /\ response'.escalated = helpRequests[Len(helpRequests)].id
       /\ \A p \in Agents :
            Escalated(p) => supervisorNotified' # {}]_vars

SupervisorToldOfStored ==
    /\ response # null /\ "escalated" \in DOMAIN response
    /\ \E r \in supervisorNotified :
        /\ r \in Range(helpRequests)
        /\ r.id = response.escalated
        /\ r.status = PENDING

\* The expanded query tokens that are a token of the question, and those that
\* only overlap one (either holds the other) without being equal to any.
exactTokens(qWords, expanded) == {word \in expanded : word \in qWords}

overlapTokens(qWords, expanded) ==
    {word \in expanded \ qWords :
        \E questionWord \in qWords :
            includes(questionWord, word) \/ includes(word, questionWord)}

\* C31: an expanded query token equal to a question token adds 20 and nothing
\* more: the score of every stored entry for the query just searched is the
\* substring, category and learned terms, 20 for each exact token, and 5 for
\* each token that overlaps a question token without being an exact one.
ExactTokenScoresTwenty ==
    response # null /\ response.handler = "searchKnowledge"
        => \A entry \in Range(knowledge) :
            LET normalizedQuery == normalize(response.query)
                expanded == expandedQueryWords(normalizedQuery)
                normalizedQuestion == normalize(entry.question)
                qWords == questionWords(normalizedQuestion)
            IN  score(entry, normalizedQuery, expanded)
                    = substringScore(normalizedQuestion, normalizedQuery)
                      + categoryScore(entry, expanded)
                      + Cardinality(exactTokens(qWords, expanded)) * 20
                      + Cardinality(overlapTokens(qWords, expanded)) * 5
                      + learnedBonus(entry)

\* The question tokens that the filter of the query tokens would keep.
keptAsQueryWords(qWords) == {w \in qWords : Len(w) > 3 /\ w \notin stopWords}

\* C32: question tokens are filtered as query tokens are, so a stop word in a
\* question yields no exact or partial score: for every stored entry and the
\* query just searched, both counts are what they are over the question
\* tokens that are longer than three characters and are not stop words.
QuestionStopWordsScoreNothing ==
    response # null /\ response.handler = "searchKnowledge"
        => \A entry \in Range(knowledge) :
            LET expanded == expandedQueryWords(normalize(response.query))
                qWords == questionWords(normalize(entry.question))
            IN  /\ matchCount(qWords, expanded)
                      = matchCount(keptAsQueryWords(qWords), expanded)
                /\ partialMatches(qWords, expanded)
                      = partialMatches(keptAsQueryWords(qWords), expanded)

\* The score of the i-th stored entry for a query.
storedScore(i, query) ==
    score(knowledge[i], normalize(query), expandedQueryWords(normalize(query)))

\* The i-th stored entry is the best match for a query: its score is positive,
\* no entry scores more, and every entry stored before it scores less.
firstOfBest(i, query) ==
    /\ storedScore(i, query) > 0
    /\ \A j \in DOMAIN knowledge :
        /\ storedScore(j, query) <= storedScore(i, query)
        /\ j < i => storedScore(j, query) < storedScore(i, query)

\* C33: searchKnowledge returns null exactly when no stored entry has a
\* positive score; otherwise it returns an entry of the highest score, the
\* first in store order among those of that score.
BestMatchReturned ==
    response # null /\ response.handler = "searchKnowledge"
        => /\ response.result = null
                <=> \A i \in DOMAIN knowledge : storedScore(i, response.query) <= 0
           /\ response.result # null
                => \E i \in DOMAIN knowledge :
                        /\ knowledge[i] = response.result
                        /\ firstOfBest(i, response.query)

\* A search over two entries of the same highest score returned the first.
TieBrokenByOrder ==
    /\ response # null /\ response.handler = "searchKnowledge"
    /\ \E i, j \in DOMAIN knowledge :
        /\ i < j
        /\ storedScore(i, response.query) = storedScore(j, response.query)
        /\ firstOfBest(i, response.query)
        /\ response.result = knowledge[i]

\* The stored entries that a query about the price is about: those filed
\* under the pricing category.
aboutPrice == {i \in DOMAIN knowledge : knowledge[i].category = CatPricing}

\* C34: two queries that differ only in a token replaced by another member of
\* its synonym group find the same entry when exactly one stored entry is
\* relevant: a search for "rate", a member of the group of "price", returns
\* what a search for "price" returns.
SynonymsFindTheSame ==
    /\ response # null /\ response.handler = "searchKnowledge"
    /\ response.query = QRate
    /\ Cardinality(aboutPrice) = 1
    => response.result = searchKnowledge(knowledge, QPrice)

\* Agent p's searchKnowledge tool runs its lookup in this step: it answers from
\* the knowledge base, or goes on to escalate the query.
Searches(p) ==
    /\ proc[p].pc = "idle"
    /\ \/ response' # null /\ response'.handler = "searchKnowledge"
       \/ /\ proc'[p].pc = "createHelpRequest:read"
          /\ proc'[p].tool = "searchKnowledge"

\* C35: searchKnowledge only reads: the step in which it runs leaves the
\* knowledge base, the help requests and the live-session directory as they
\* were.
SearchOnlyReads ==
    [][\A p \in Agents :
            Searches(p) => /\ knowledge' = knowledge
                           /\ helpRequests' = helpRequests
                           /\ activeSessions' = activeSessions]_vars

\* A search has answered while a help request is stored, a session is live
\* and the clock has moved on since the entries were stored.
SearchedAmongRequests ==
    /\ response # null /\ response.handler = "searchKnowledge"
    /\ helpRequests # <<>>
    /\ DOMAIN activeSessions # {}
    /\ clock > 0

\* Handler p goes on in this step after a webhook POST of the given type that
\* failed: the fetch was rejected, or it returned a status that is not ok.
PostFailed(p, type) ==
    /\ proc[p].pc = "fetch" /\ proc'[p].pc # "fetch"
    /\ proc[p].type = type
    /\ proc[p].fetched \in {"throws", "status"}

\* C36: with the webhook service, a failed POST falls back to the console
\* service: after a failed supervisor notification the request is logged by
\* ConsoleNotificationService.notifySupervisor, and after a failed customer
\* notification the message is handed to its notifyCustomer.
FailedPostFallsBack ==
    [][\A p \in Procs :
            /\ PostFailed(p, "supervisor_notification")
                    => supervisorNotified' = {proc[p].helpRequest}
            /\ PostFailed(p, "customer_notification")
                    => /\ proc'[p].pc = "notifyCustomer"
                       /\ proc'[p].message = proc[p].message]_vars

\* Handler p's push fails in this step, after the phone's entry was replaced
\* by the session of a newer call.
StalePushFails(p) ==
    /\ proc[p].pc = "session.say"
    /\ customerNotified' = {outcome(p, TRUE, FALSE)}
    /\ isSessionActive(proc[p].customerPhone)
    /\ activeSessions[proc[p].customerPhone].session # proc[p].session

\* C37: a failed push evicts only the session it was attempted on: when the
\* phone's entry was replaced by a newly registered session while the push
\* was in flight, the failure of the push leaves the new session's entry in
\* the directory.
FailedPushKeepsNewSession ==
    [][\A p \in Procs :
            StalePushFails(p)
                => /\ proc[p].customerPhone \in DOMAIN activeSessions'
                   /\ activeSessions'[proc[p].customerPhone]
                        = activeSessions[proc[p].customerPhone]]_vars

\* The respond endpoint answers 200 in this step.
RespondSucceeds ==
    response' # null /\ response'.handler = "respond" /\ response'.status = 200

\* C38: a request resolved by one successful respond call is notified to the
\* customer exactly once, counting the respond handler and every tick of the
\* poller: notifyCustomer ends in a step exactly when a respond call ends
\* with success in it, it is one notification, made by the respond handler
\* for the request that call resolved, and none is made by the poller.
NotifiedOncePerRespond ==
    [][/\ customerNotified' # {} <=> RespondSucceeds
       /\ \A n, m \in customerNotified' : n = m
       /\ \A n \in customerNotified' :
            /\ n.by = "respond"
            /\ n.customerPhone = response'.request.customerPhone
            /\ n.message = followUpMessage(response'.request.supervisorAnswer)]_vars

\* A respond call has ended with its notification while a tick of the poller
\* is in flight.
NotifiedDuringTick ==
    /\ customerNotified # {}
    /\ response # null /\ response.handler = "respond" /\ response.status = 200
    /\ \E t \in Tickers : proc[t].pc # "idle"

\* The last instant the clock is looked at.
LastInstant == CHOOSE t \in Instants : \A u \in Instants : u <= t

\* The i-th stored request is pending, with a deadline that the clock passes.
PendingUntilDeadline(i) ==
    /\ i \in DOMAIN helpRequests
    /\ helpRequests[i].status = PENDING
    /\ helpRequests[i].timeoutAt < LastInstant

\* C39: while the poller keeps ticking and time advances, every request
\* created leaves pending, resolved or timed out: none stays pending for ever
\* once its deadline has passed.
PendingEventuallyLeaves ==
    \A i \in 1..MaxRequests :
        PendingUntilDeadline(i)
            ~> (i \in DOMAIN helpRequests /\ helpRequests[i].status # PENDING)

\* A request has been marked timeout after its deadline, with no handler in
\* flight.
TimedOutAfterDeadline ==
    /\ \E r \in Range(helpRequests) : r.status = TIMEOUT /\ r.timeoutAt < clock
    /\ InFlight = {}

====
